---------------------------- MODULE Spec2Model ----------------------------
(***************************************************************************)
(* Model of agent.py: the pytest-file generator (extract signatures,       *)
(* build prompts, call the chat model, guard the reply, write the file).   *)
(*                                                                         *)
(* Text is a sequence of characters (one-character strings).  The fixed    *)
(* literal passages of the prompt template are kept as single elements.    *)
(***************************************************************************)
EXTENDS Naturals, Sequences, FiniteSets, TLC

VARIABLES
    pc,             \* position in main / in the function under study
    environ,        \* os.environ: the two variables call_azure_llm reads
    pyfile,         \* the file at args.pyfile
    run_flag,       \* args.run
    module_name,    \* pyfile_path.stem
    functions,      \* list of {"name", "args", "doc"}
    code,           \* text of the source file
    system_prompt,
    human_prompt,
    alt_prompts,    \* build_prompts called with another module_code
    llm,            \* the AzureChatOpenAI client, once constructed
    attempts,       \* requests sent by llm.invoke
    generated,      \* ai_msg.content
    ensured,        \* ensure_imports_and_header(module_name, generated, functions)
    ensured_again,  \* the guard applied to its own result
    dest,           \* content of test_<module>.py
    writes,         \* number of write_text calls on dest
    pytest_runs,    \* number of pytest subprocesses run
    error,          \* the exception that ended the run, if any
    steps           \* the stages of main completed so far, in order

vars == <<pc, environ, pyfile, run_flag, module_name, functions, code,
          system_prompt, human_prompt, alt_prompts, llm, attempts, generated,
          ensured, ensured_again, dest, writes, pytest_runs, error, steps>>

---------------------------------------------------------------------------
(* Bounds *)

MaxSegments == 2     \* pieces (text + line terminator) of a model reply
MaxBody == 2         \* statements in the body of a module

---------------------------------------------------------------------------
(* Characters and Python's str / list operations *)

LF == "\n"
CR == "\r"
FF == "\f"
TAB == "\t"
SP == " "

None == <<"<None>">>

\* the line boundaries of str.splitlines among the modelled characters
LineBreaks == {LF, CR, FF}

\* the characters str.strip removes
Whitespace == {SP, TAB, LF, CR, FF}

RECURSIVE SplitFrom(_, _, _, _)
SplitFrom(s, i, cur, acc) ==
    IF i > Len(s) THEN (IF cur # <<>> THEN Append(acc, cur) ELSE acc)
    ELSE IF s[i] = CR /\ i < Len(s) /\ s[i + 1] = LF
         THEN SplitFrom(s, i + 2, <<>>, Append(acc, cur))
    ELSE IF s[i] \in LineBreaks
         THEN SplitFrom(s, i + 1, <<>>, Append(acc, cur))
    ELSE SplitFrom(s, i + 1, Append(cur, s[i]), acc)

splitlines(s) == SplitFrom(s, 1, <<>>, <<>>)

RECURSIVE lstrip(_)
lstrip(s) == IF s # <<>> /\ Head(s) \in Whitespace THEN lstrip(Tail(s)) ELSE s

RECURSIVE rstrip(_)
rstrip(s) ==
    IF s # <<>> /\ s[Len(s)] \in Whitespace
    THEN rstrip(SubSeq(s, 1, Len(s) - 1)) ELSE s

strip(s) == rstrip(lstrip(s))

startswith(s, prefix) ==
    Len(prefix) <= Len(s) /\ SubSeq(s, 1, Len(prefix)) = prefix

RECURSIVE join(_, _)
join(sep, items) ==
    IF items = <<>> THEN <<>>
    ELSE IF Len(items) = 1 THEN items[1]
    ELSE items[1] \o sep \o join(sep, Tail(items))

\* list[index] = item in place of list.insert(index, item)
insert_overwrite(list, index, item) ==
    IF index < Len(list) THEN [list EXCEPT ![index + 1] = item]
    ELSE Append(list, item)

\* list.insert(index, item), index counted from 0 and clipped to the length
insert(list, index, item) ==
    LET k == IF index > Len(list) THEN Len(list) ELSE index
    IN  SubSeq(list, 1, k) \o <<item>> \o SubSeq(list, k + 1, Len(list))

Names(fs) == [i \in 1..Len(fs) |-> fs[i].name]

---------------------------------------------------------------------------
(* ensure_imports_and_header *)

ImportPytest == <<"i","m","p","o","r","t"," ","p","y","t","e","s","t">>
ImportKw == <<"i","m","p","o","r","t">>
FromKw == <<"f","r","o","m">>
CommaSp == <<",", " ">>

FromPrefix(m) == FromKw \o <<SP>> \o m \o <<SP>> \o ImportKw
ImportPrefix(m) == ImportKw \o <<SP>> \o m

HasPytestHeader(lines) ==
    lines # <<>> /\ startswith(strip(lines[1]), ImportPytest)

import_stmt(m, fs) ==
    IF fs # <<>> THEN FromPrefix(m) \o <<SP>> \o join(CommaSp, Names(fs))
    ELSE ImportPrefix(m)

\* only the `from <module> import` form looked for
HasModuleImport_from_only(m, lines) ==
    \E i \in 1..Len(lines) : startswith(strip(lines[i]), FromPrefix(m))

HasModuleImport(m, lines) ==
    \E i \in 1..Len(lines) :
        \/ startswith(strip(lines[i]), FromPrefix(m))
        \/ startswith(strip(lines[i]), ImportPrefix(m))

EnsureLines(m, generated_code, fs) ==
    LET lines0 == splitlines(generated_code)
        lines1 == IF ~HasPytestHeader(lines0)
                  THEN insert(lines0, 0, ImportPytest) ELSE lines0
    IN  IF ~HasModuleImport(m, lines1)
        THEN insert(lines1, 1, import_stmt(m, fs)) ELSE lines1

\* "\n".join(lines) without the final "\n"
ensure_without_final_newline(m, generated_code, fs) ==
    join(<<LF>>, EnsureLines(m, generated_code, fs))

ensure_imports_and_header(m, generated_code, fs) ==
    join(<<LF>>, EnsureLines(m, generated_code, fs)) \o <<LF>>

---------------------------------------------------------------------------
(* extract_top_level_functions *)

\* ast.arguments, each parameter by its name (a.arg)
Arguments(posonly, positional, vararg, kwonly, kwarg) ==
    [posonlyargs |-> posonly, args |-> positional, vararg |-> vararg,
     kwonlyargs |-> kwonly, kwarg |-> kwarg]

NoArguments == Arguments(<<>>, <<>>, None, <<>>, None)

\* a statement of a module body: its ast class, and for a definition its
\* name, parameters, docstring (ast.get_docstring) and the definitions
\* nested in its own body
Stmt(type, name, args, doc, inner) ==
    [type |-> type, name |-> name, args |-> args, doc |-> doc, inner |-> inner]

Signature(node) ==
    [name |-> node.name, args |-> node.args.args, doc |-> node.doc]

RECURSIVE TopLevelFunctions(_)
TopLevelFunctions(body) ==
    IF body = <<>> THEN <<>>
    ELSE IF Head(body).type = "FunctionDef"
         THEN <<Signature(Head(body))>> \o TopLevelFunctions(Tail(body))
    ELSE TopLevelFunctions(Tail(body))

\* open() and ast.parse() raise on a missing or an unparsable file
ExtractError(file) ==
    IF ~file.exists THEN "FileNotFoundError"
    ELSE IF ~file.valid THEN "SyntaxError"
    ELSE "none"

extract_top_level_functions(file) ==
    [funcs |-> TopLevelFunctions(file.body), src |-> file.text]

---------------------------------------------------------------------------
(* build_prompts *)

SystemText ==
    <<"Você é um assistente que produz arquivos de teste (pytest) para módulos Python. Retorne APENAS o conteúdo do arquivo de teste em Python (sem comentários, sem markdown, sem explicação). O primeiro caractere do arquivo deve começar com 'import pytest'.">>

Placeholder == <<"(nenhuma função top-level encontrada)">>

\* the name alone, without the parameter list
FuncLine_name_only(f) == <<"-", SP>> \o f.name

FuncLine(f) ==
    <<"-", SP>> \o f.name \o <<"(">> \o join(CommaSp, f.args) \o <<")">>

funcs_list_text(fs) ==
    IF fs # <<>>
    THEN join(<<LF>>, [i \in 1..Len(fs) |-> FuncLine(fs[i])])
    ELSE Placeholder

HumanTemplate(m, module_code, fs) ==
    <<LF>>
    \o <<"Gere um arquivo pytest para o módulo \"">> \o m \o <<"\". ", LF>>
    \o <<"Regras obrigatórias:", LF>>
    \o <<"1) A primeira linha do arquivo deve ser: import pytest", LF>>
    \o <<"2) Inclua import dos simbolos testados: from ">> \o m \o <<" import ">>
    \o (IF fs # <<>> THEN join(CommaSp, Names(fs)) ELSE <<"*">>) \o <<LF>>
    \o <<"3) Para cada função top-level listada abaixo gere AO MENOS 2 testes:", LF>>
    \o <<"   - def test_<func>_success(): teste de comportamento típico/esperado", LF>>
    \o <<"   - def test_<func>_failure(): teste de caso limite ou exceção esperada (use pytest.raises quando apropriado)", LF>>
    \o <<"4) Use asserts claros (assert resultado == esperado) e evite chamadas de rede, tempo ou I/O.", LF>>
    \o <<"5) Saia apenas com código Python válido (sem explicações). ", LF>>
    \o <<LF>>
    \o <<"Módulo (conteúdo):", LF>>
    \o <<LF>>
    \o <<"Funções a serem testadas:", LF>>
    \o funcs_list_text(fs) \o <<LF>>
    \o <<LF>>
    \o <<"Gerar agora somente o conteúdo do arquivo test_">> \o m \o <<".py", LF>>

build_prompts(m, module_code, fs) ==
    [system |-> strip(SystemText), human |-> strip(HumanTemplate(m, module_code, fs))]

---------------------------------------------------------------------------
(* call_azure_llm *)

\* max_retries=3 in place of max_retries=2
MaxRetries_three == 2 + 1

MaxRetries == 2

DefaultApiVersion == <<"2023-06-01-preview">>

\* os.getenv(name, default): None marks a variable that is not set
getenv(env, name, default) == IF env[name] = None THEN default ELSE env[name]

\* `not deployment`: None or the empty string
Falsy(value) == value = None \/ value = <<>>

\* `if deployment is None` in place of `if not deployment`
MissingDeployment_none_only(env) ==
    getenv(env, "AZURE_OPENAI_DEPLOYMENT", None) = None

MissingDeployment(env) == Falsy(getenv(env, "AZURE_OPENAI_DEPLOYMENT", None))

AzureChatOpenAI(env) ==
    [azure_deployment |-> getenv(env, "AZURE_OPENAI_DEPLOYMENT", None),
     api_version |-> getenv(env, "AZURE_OPENAI_API_VERSION", DefaultApiVersion),
     temperature |-> 0,
     max_retries |-> MaxRetries]

\* the value of llm before line 95 is reached
NoClient ==
    [azure_deployment |-> None, api_version |-> None, temperature |-> 0,
     max_retries |-> 0]

\* requests llm.invoke may send: the first one and max_retries retries
MaxAttempts(client) == client.max_retries + 1

---------------------------------------------------------------------------
(* Inputs *)

\* stems of the source file: m.py, py.py (a prefix of "pytest") and "m .py"
ModuleNames == {<<"m">>, <<"p","y">>, <<"m", SP>>}

ArgA == <<"a">>
ArgB == <<"b">>
NameAdd == <<"a","d","d">>
NameF == <<"f">>

DefAdd == Stmt("FunctionDef", NameAdd, Arguments(<<>>, <<ArgA, ArgB>>, None, <<>>, None), None, <<>>)
DefF == Stmt("FunctionDef", NameF, NoArguments, <<"docstring of f">>, <<>>)
DefStar == Stmt("FunctionDef", <<"g">>, Arguments(<<>>, <<ArgA>>, <<"r">>, <<"k">>, None), None, <<>>)
DefAsync == Stmt("AsyncFunctionDef", <<"h">>, Arguments(<<>>, <<ArgA>>, None, <<>>, None), None, <<>>)
DefOuter == Stmt("FunctionDef", <<"o">>, NoArguments, None, <<DefF>>)
DefClass == Stmt("ClassDef", <<"C">>, NoArguments, None, <<DefAdd>>)
Assign == Stmt("Assign", <<>>, NoArguments, None, <<>>)

Statements == {DefAdd, DefF, DefStar, DefAsync, DefOuter, DefClass, Assign}

RECURSIVE SeqsUpTo(_, _)
SeqsUpTo(S, k) ==
    IF k = 0 THEN {<<>>}
    ELSE LET R == SeqsUpTo(S, k - 1)
         IN  R \cup {<<x>> \o r : x \in S, r \in R}

Bodies == SeqsUpTo(Statements, MaxBody)

SourceText == {<<"source text 1">>, <<"source text 2">>}

File(exists, valid, stem, text, body) ==
    [exists |-> exists, valid |-> valid, stem |-> stem, text |-> text, body |-> body]

MissingFile(stem) == File(FALSE, FALSE, stem, <<>>, <<>>)
BrokenFile(stem) == File(TRUE, FALSE, stem, <<"def broken(:">>, <<>>)

Files ==
    {MissingFile(m) : m \in ModuleNames}
    \cup {BrokenFile(m) : m \in ModuleNames}
    \cup {File(TRUE, TRUE, m, <<"source text 1">>, b) : m \in ModuleNames, b \in Bodies}

SigAdd == Signature(DefAdd)
SigF == Signature(DefF)

SignatureLists == {<<>>, <<SigAdd>>, <<SigAdd, SigF>>}

\* a markdown code fence (the tilde form)
Fence == <<"~","~","~">>

ReplyAtoms(m) ==
    {<<>>, <<SP>>, Fence, ImportPytest, ImportPrefix(m),
     FromPrefix(m) \o <<SP>> \o NameAdd}

Terminators == {<<>>, <<LF>>, <<CR, LF>>}

Segments(m) == {a \o t : a \in ReplyAtoms(m), t \in Terminators}

RECURSIVE Replies(_, _)
Replies(m, k) ==
    IF k = 0 THEN {<<>>}
    ELSE LET R == Replies(m, k - 1)
         IN  R \cup {s \o r : s \in Segments(m), r \in R}

EnvValues == {None, <<>>, <<"v">>}

Environments ==
    [{"AZURE_OPENAI_DEPLOYMENT", "AZURE_OPENAI_API_VERSION"} -> EnvValues]

---------------------------------------------------------------------------
(* State *)

NoFunctions == <<>>
NoText == <<>>
NoPrompts == [system |-> NoText, human |-> NoText]

\* the run has not reached the variables a function under study leaves alone
Untouched ==
    /\ environ = [n \in {"AZURE_OPENAI_DEPLOYMENT", "AZURE_OPENAI_API_VERSION"} |-> None]
    /\ run_flag = FALSE
    /\ llm = NoClient
    /\ attempts = 0
    /\ dest = None
    /\ writes = 0
    /\ pytest_runs = 0
    /\ error = "none"
    /\ steps = <<>>

---------------------------------------------------------------------------
(* ensure_imports_and_header as a pure function *)

InitGuard ==
    /\ pc = "guard"
    /\ module_name \in ModuleNames
    /\ functions \in SignatureLists
    /\ generated \in Replies(module_name, MaxSegments)
    /\ pyfile = MissingFile(module_name)
    /\ code = NoText
    /\ system_prompt = NoText
    /\ human_prompt = NoText
    /\ alt_prompts = NoPrompts
    /\ ensured = NoText
    /\ ensured_again = NoText
    /\ Untouched

ApplyGuard ==
    /\ pc = "guard"
    /\ ensured' = ensure_imports_and_header(module_name, generated, functions)
    /\ pc' = "guarded"
    /\ UNCHANGED <<environ, pyfile, run_flag, module_name, functions, code,
                   system_prompt, human_prompt, alt_prompts, llm, attempts,
                   generated, ensured_again, dest, writes, pytest_runs, error, steps>>

ApplyGuardAgain ==
    /\ pc = "guarded"
    /\ ensured_again' = ensure_imports_and_header(module_name, ensured, functions)
    /\ pc' = "reguarded"
    /\ UNCHANGED <<environ, pyfile, run_flag, module_name, functions, code,
                   system_prompt, human_prompt, alt_prompts, llm, attempts,
                   generated, ensured, dest, writes, pytest_runs, error, steps>>

NextGuard == ApplyGuard \/ ApplyGuardAgain

SpecGuard == InitGuard /\ [][NextGuard]_vars

---------------------------------------------------------------------------
(* extract_top_level_functions as a pure function *)

InitExtract ==
    /\ pc = "extract"
    /\ pyfile \in Files
    /\ module_name = pyfile.stem
    /\ functions = NoFunctions
    /\ code = NoText
    /\ generated = NoText
    /\ system_prompt = NoText
    /\ human_prompt = NoText
    /\ alt_prompts = NoPrompts
    /\ ensured = NoText
    /\ ensured_again = NoText
    /\ Untouched

ApplyExtract ==
    /\ pc = "extract"
    /\ IF ExtractError(pyfile) # "none"
       THEN /\ error' = ExtractError(pyfile)
            /\ pc' = "failed"
            /\ UNCHANGED <<functions, code>>
       ELSE /\ functions' = extract_top_level_functions(pyfile).funcs
            /\ code' = extract_top_level_functions(pyfile).src
            /\ pc' = "extracted"
            /\ UNCHANGED error
    /\ UNCHANGED <<environ, pyfile, run_flag, module_name, system_prompt,
                   human_prompt, alt_prompts, llm, attempts, generated, ensured,
                   ensured_again, dest, writes, pytest_runs, steps>>

NextExtract == ApplyExtract

SpecExtract == InitExtract /\ [][NextExtract]_vars

---------------------------------------------------------------------------
(* build_prompts as a pure function *)

InitPrompts ==
    /\ pc = "prompts"
    /\ module_name \in ModuleNames
    /\ functions \in {TopLevelFunctions(b) : b \in Bodies}
    /\ code \in SourceText
    /\ pyfile = MissingFile(module_name)
    /\ generated = NoText
    /\ system_prompt = NoText
    /\ human_prompt = NoText
    /\ alt_prompts = NoPrompts
    /\ ensured = NoText
    /\ ensured_again = NoText
    /\ Untouched

ApplyBuildPrompts ==
    /\ pc = "prompts"
    /\ system_prompt' = build_prompts(module_name, code, functions).system
    /\ human_prompt' = build_prompts(module_name, code, functions).human
    /\ pc' = "built"
    /\ UNCHANGED <<environ, pyfile, run_flag, module_name, functions, code,
                   alt_prompts, llm, attempts, generated, ensured,
                   ensured_again, dest, writes, pytest_runs, error, steps>>

\* the same call with another module_code
ApplyBuildPromptsAlt ==
    /\ pc = "built"
    /\ \E other \in SourceText \ {code} :
            alt_prompts' = build_prompts(module_name, other, functions)
    /\ pc' = "rebuilt"
    /\ UNCHANGED <<environ, pyfile, run_flag, module_name, functions, code,
                   system_prompt, human_prompt, llm, attempts, generated,
                   ensured, ensured_again, dest, writes, pytest_runs, error, steps>>

NextPrompts == ApplyBuildPrompts \/ ApplyBuildPromptsAlt

SpecPrompts == InitPrompts /\ [][NextPrompts]_vars

---------------------------------------------------------------------------
(* main *)

OldTests == <<"# tests written by an earlier run", LF>>

MainFiles ==
    {MissingFile(m) : m \in ModuleNames}
    \cup {BrokenFile(m) : m \in ModuleNames}
    \cup {File(TRUE, TRUE, m, <<"source text 1">>, b) :
            m \in ModuleNames, b \in {<<>>, <<DefAdd>>, <<DefAdd, DefF>>}}

\* replies of the model: empty, as asked for, with an indented header, with
\* no import at all, and inside a markdown fence
MainReplies(m) ==
    {<<>>,
     ImportPytest \o <<LF>> \o FromPrefix(m) \o <<SP>> \o NameAdd \o <<LF>>,
     <<SP>> \o ImportPytest \o <<LF>>,
     <<"x">>,
     Fence \o <<LF>> \o ImportPytest \o <<LF>> \o Fence}

Init ==
    /\ pc = "start"
    /\ environ \in Environments
    /\ pyfile \in MainFiles
    /\ run_flag \in BOOLEAN
    /\ dest \in {None, OldTests}
    /\ module_name = NoText
    /\ functions = NoFunctions
    /\ code = NoText
    /\ system_prompt = NoText
    /\ human_prompt = NoText
    /\ alt_prompts = NoPrompts
    /\ llm = NoClient
    /\ attempts = 0
    /\ generated = NoText
    /\ ensured = NoText
    /\ ensured_again = NoText
    /\ writes = 0
    /\ pytest_runs = 0
    /\ error = "none"
    /\ steps = <<>>

\* lines 148-152: the existence check and the module name
CheckExists ==
    /\ pc = "start"
    /\ IF ~pyfile.exists
       THEN /\ error' = "FileNotFoundError"
            /\ pc' = "failed"
            /\ UNCHANGED module_name
       ELSE /\ module_name' = pyfile.stem
            /\ pc' = "extract"
            /\ UNCHANGED error
    /\ UNCHANGED <<environ, pyfile, run_flag, functions, code, system_prompt,
                   human_prompt, alt_prompts, llm, attempts, generated, ensured,
                   ensured_again, dest, writes, pytest_runs, steps>>

\* line 155
Extract ==
    /\ pc = "extract"
    /\ IF ExtractError(pyfile) # "none"
       THEN /\ error' = ExtractError(pyfile)
            /\ pc' = "failed"
            /\ UNCHANGED <<functions, code, steps>>
       ELSE /\ functions' = extract_top_level_functions(pyfile).funcs
            /\ code' = extract_top_level_functions(pyfile).src
            /\ steps' = Append(steps, "extract")
            /\ pc' = "prompts"
            /\ UNCHANGED error
    /\ UNCHANGED <<environ, pyfile, run_flag, module_name, system_prompt,
                   human_prompt, alt_prompts, llm, attempts, generated, ensured,
                   ensured_again, dest, writes, pytest_runs>>

\* line 158
BuildPrompts ==
    /\ pc = "prompts"
    /\ system_prompt' = build_prompts(module_name, code, functions).system
    /\ human_prompt' = build_prompts(module_name, code, functions).human
    /\ steps' = Append(steps, "prompts")
    /\ pc' = "configure"
    /\ UNCHANGED <<environ, pyfile, run_flag, module_name, functions, code,
                   alt_prompts, llm, attempts, generated, ensured,
                   ensured_again, dest, writes, pytest_runs, error>>

\* call_azure_llm, lines 89-100: the configuration check, then the client
LlmConfigure ==
    /\ pc = "configure"
    /\ IF MissingDeployment(environ)
       THEN /\ error' = "RuntimeError"
            /\ pc' = "failed"
            /\ UNCHANGED llm
       ELSE /\ llm' = AzureChatOpenAI(environ)
            /\ pc' = "invoke"
            /\ UNCHANGED error
    /\ UNCHANGED <<environ, pyfile, run_flag, module_name, functions, code,
                   system_prompt, human_prompt, alt_prompts, attempts, generated,
                   ensured, ensured_again, dest, writes, pytest_runs, steps>>

\* call_azure_llm, lines 108-110: a request that is answered
LlmReply ==
    /\ pc = "invoke"
    /\ attempts < MaxAttempts(llm)
    /\ attempts' = attempts + 1
    /\ generated' \in MainReplies(module_name)
    /\ steps' = Append(steps, "llm")
    /\ pc' = "guard"
    /\ UNCHANGED <<environ, pyfile, run_flag, module_name, functions, code,
                   system_prompt, human_prompt, alt_prompts, llm, ensured,
                   ensured_again, dest, writes, pytest_runs, error>>

\* line 108: a request that fails transiently; the client retries it until
\* max_retries is used up, then llm.invoke raises
LlmTransientFailure ==
    /\ pc = "invoke"
    /\ attempts < MaxAttempts(llm)
    /\ attempts' = attempts + 1
    /\ IF attempts + 1 < MaxAttempts(llm)
       THEN UNCHANGED <<pc, error>>
       ELSE /\ error' = "APIError"
            /\ pc' = "failed"
    /\ UNCHANGED <<environ, pyfile, run_flag, module_name, functions, code,
                   system_prompt, human_prompt, alt_prompts, llm, generated,
                   ensured, ensured_again, dest, writes, pytest_runs, steps>>

\* line 108: a request that fails for good (not retried); llm.invoke raises
LlmFatalFailure ==
    /\ pc = "invoke"
    /\ attempts < MaxAttempts(llm)
    /\ attempts' = attempts + 1
    /\ error' = "APIError"
    /\ pc' = "failed"
    /\ UNCHANGED <<environ, pyfile, run_flag, module_name, functions, code,
                   system_prompt, human_prompt, alt_prompts, llm, generated,
                   ensured, ensured_again, dest, writes, pytest_runs, steps>>

\* line 164
Guard ==
    /\ pc = "guard"
    /\ ensured' = ensure_imports_and_header(module_name, generated, functions)
    /\ steps' = Append(steps, "guard")
    /\ pc' = "write"
    /\ UNCHANGED <<environ, pyfile, run_flag, module_name, functions, code,
                   system_prompt, human_prompt, alt_prompts, llm, attempts,
                   generated, ensured_again, dest, writes, pytest_runs, error>>

\* lines 167-168 (write_test_file, lines 130-132)
WriteTestFile ==
    /\ pc = "write"
    /\ dest' = ensured
    /\ writes' = writes + 1
    /\ steps' = Append(steps, "write")
    /\ pc' = IF run_flag THEN "pytest" ELSE "done"
    /\ UNCHANGED <<environ, pyfile, run_flag, module_name, functions, code,
                   system_prompt, human_prompt, alt_prompts, llm, attempts,
                   generated, ensured, ensured_again, pytest_runs, error>>

\* lines 170-172 (run_pytest_for_file, lines 135-139)
RunPytest ==
    /\ pc = "pytest"
    /\ pytest_runs' = pytest_runs + 1
    /\ pc' = "done"
    /\ UNCHANGED <<environ, pyfile, run_flag, module_name, functions, code,
                   system_prompt, human_prompt, alt_prompts, llm, attempts,
                   generated, ensured, ensured_again, dest, writes, error, steps>>

Next ==
    \/ CheckExists
    \/ Extract
    \/ BuildPrompts
    \/ LlmConfigure
    \/ LlmReply
    \/ LlmTransientFailure
    \/ LlmFatalFailure
    \/ Guard
    \/ WriteTestFile
    \/ RunPytest

Spec == Init /\ [][Next]_vars

PcValues ==
    {"start", "extract", "prompts", "configure", "invoke", "guard", "write",
     "pytest", "done", "failed"}

\* What a step of main does to its position and to the request count.  Every
\* step of Next is a Progress step that changes <<pc, attempts>>, and one is
\* possible exactly while the run has not ended, so weak fairness of Progress
\* is weak fairness of Next: the single thread of main takes its next step.
Progress ==
    /\ pc \notin {"done", "failed"}
    /\ pc' \in PcValues
    /\ attempts' \in 0..MaxAttempts(AzureChatOpenAI(environ))

FairSpec == Init /\ [][Next]_vars /\ WF_<<pc, attempts>>(Progress)

---------------------------------------------------------------------------
(* Properties of ensure_imports_and_header *)

Guarded == pc \in {"guarded", "reguarded"}

InLines == splitlines(generated)
OutLines == splitlines(ensured)

\* a line that literally starts with one of the two module-import forms
StartsWithModuleImport(m, line) ==
    startswith(line, FromPrefix(m)) \/ startswith(line, ImportPrefix(m))

\* the same, leading and trailing blanks ignored
StripStartsWithModuleImport(m, line) == StartsWithModuleImport(m, strip(line))

\* the import line the module and its signatures call for
ExpectedImport(m, fs) ==
    IF fs = <<>> THEN <<"i","m","p","o","r","t",SP>> \o m
    ELSE <<"f","r","o","m",SP>> \o m \o <<SP,"i","m","p","o","r","t",SP>>
         \o join(<<",", SP>>, [i \in 1..Len(fs) |-> fs[i].name])

\* s without the elements at the positions in D
RemoveAt(s, D) ==
    LET F[i \in 0..Len(s)] ==
            IF i = 0 THEN <<>>
            ELSE IF i \in D THEN F[i - 1] ELSE Append(F[i - 1], s[i])
    IN  F[Len(s)]

\* every line of s ends with "\n" and s holds no other line boundary
NewlineTerminated(s) ==
    /\ s # <<>>
    /\ s[Len(s)] = LF
    /\ \A i \in 1..Len(s) : s[i] \notin (LineBreaks \ {LF})

\* C1, in its weakest reading: the guarded result starts with `import pytest`
\* (the claim: its first line is exactly that), and some line of it, with or
\* without the blanks around it, starts with `from <module> import` or
\* `import <module>`.
C1_HeaderAndImport ==
    Guarded =>
        /\ startswith(ensured, ImportPytest)
        /\ \E i \in 1..Len(OutLines) :
                \/ StartsWithModuleImport(module_name, OutLines[i])
                \/ StripStartsWithModuleImport(module_name, OutLines[i])

\* C2 as stated: text whose first non-empty line is `import pytest` and which
\* has a line starting with a module-import form comes back byte-identical.
C2_ConformantUnchanged ==
    (/\ Guarded
     /\ \E i \in 1..Len(InLines) :
            /\ InLines[i] = ImportPytest
            /\ \A j \in 1..(i - 1) : InLines[j] = <<>>
     /\ \E i \in 1..Len(InLines) : StartsWithModuleImport(module_name, InLines[i]))
    => ensured = generated

\* a module name that neither ends in a blank nor holds a line boundary
PlainModuleName(m) ==
    /\ m # <<>>
    /\ m[Len(m)] \notin Whitespace
    /\ \A i \in 1..Len(m) : m[i] \notin LineBreaks

C2_Precondition ==
    /\ PlainModuleName(module_name)
    /\ NewlineTerminated(generated)
    /\ InLines[1] = ImportPytest
    /\ \E i \in 1..Len(InLines) : StartsWithModuleImport(module_name, InLines[i])

\* C2 amended: for a module name that neither ends in a blank nor holds a
\* line boundary, text in which every line ends with "\n" (no other line
\* boundary), whose FIRST line is `import pytest` and which has a line
\* starting with a module-import form, comes back byte-identical.
C2_NewlineTerminatedConformantUnchanged ==
    (Guarded /\ C2_Precondition) => ensured = generated

C2_Witness ==
    /\ Guarded
    /\ C2_Precondition
    /\ Len(InLines) >= 2
    /\ module_name = <<"m">>

C4_ImportInsertedSecond ==
    (/\ Guarded
     /\ \A i \in 1..Len(InLines) : ~StripStartsWithModuleImport(module_name, InLines[i]))
    =>
        /\ Len(OutLines) >= 2
        /\ startswith(strip(OutLines[1]), ImportPytest)
        /\ OutLines[2] = ExpectedImport(module_name, functions)
        /\ RemoveAt(OutLines, {2}) \in {InLines, <<ImportPytest>> \o InLines}

\* C10 as stated: a second application of the guard changes nothing, for
\* every text, module name and signature list.
C10_FixedPoint ==
    pc = "reguarded" => ensured_again = ensured

\* C10 amended: for a module name that neither ends in a blank nor holds a
\* line boundary, a second application of the guard changes nothing.
C10_FixedPointPlainModuleName ==
    (pc = "reguarded" /\ PlainModuleName(module_name)) => ensured_again = ensured

C10_Witness ==
    /\ pc = "reguarded"
    /\ PlainModuleName(module_name)
    /\ generated # <<>>
    /\ Len(OutLines) = Len(InLines) + 2
    /\ ensured_again = ensured

---------------------------------------------------------------------------
(* Properties of main and call_azure_llm *)

Stages == <<"extract", "prompts", "llm", "guard", "write">>

IsPrefix(p, q) == Len(p) <= Len(q) /\ SubSeq(q, 1, Len(p)) = p

Unwritten == writes = 0 /\ dest \in {None, OldTests}

\* the stages run in order, the file is written at most once and only after
\* all earlier stages, and a failed run has written nothing
OrderAndNoWriteOnError ==
    /\ IsPrefix(steps, Stages)
    /\ writes <= 1
    /\ writes = 1 <=> (steps = Stages)
    /\ writes = 1 =>
            /\ error = "none"
            /\ llm # NoClient
            /\ attempts >= 1
            /\ dest = ensured
            /\ ensured = ensure_imports_and_header(module_name, generated, functions)
    /\ writes = 0 => dest \in {None, OldTests}
    /\ pc = "failed" => (error # "none" /\ Unwritten)
    /\ (pc \notin {"start", "extract"} /\ (~pyfile.exists \/ ~pyfile.valid))
            => pc = "failed"
    /\ (pc \notin {"start", "extract", "prompts", "configure"}
            /\ MissingDeployment(environ)) => pc = "failed"

\* C5: no partial success: the stages run in order, the file is written at
\* most once and only after extraction, configuration and the model call
\* succeeded, a failed run leaves the file alone, and what is written is
\* conformant: it starts with `import pytest` and has a module-import line.
C5_NoPartialSuccess ==
    /\ OrderAndNoWriteOnError
    /\ writes = 1 =>
            /\ startswith(dest, ImportPytest)
            /\ \E i \in 1..Len(splitlines(dest)) :
                    \/ StartsWithModuleImport(module_name, splitlines(dest)[i])
                    \/ StripStartsWithModuleImport(module_name, splitlines(dest)[i])

PastConfiguration == pc \notin {"start", "extract", "prompts", "configure"}

ConfigurationErrorState == pc = "failed" /\ error = "RuntimeError"

DeploymentUnsetOrEmpty == environ["AZURE_OPENAI_DEPLOYMENT"] \in {None, <<>>}

\* C6: with AZURE_OPENAI_DEPLOYMENT unset or empty the call ends in the
\* configuration error, and no client was constructed and no request sent at
\* or before that state (neither is ever undone); with the API version unset
\* there is no error from it and the client gets the default version.
C6_ConfigurationErrorBeforeNetwork ==
    /\ [](/\ ConfigurationErrorState => (llm = NoClient /\ attempts = 0)
          /\ (PastConfiguration /\ pyfile.exists /\ pyfile.valid
                /\ DeploymentUnsetOrEmpty) => ConfigurationErrorState
          /\ ConfigurationErrorState => DeploymentUnsetOrEmpty
          /\ (PastConfiguration /\ pyfile.exists /\ pyfile.valid
                /\ ~DeploymentUnsetOrEmpty) => llm # NoClient
          /\ (llm # NoClient /\ environ["AZURE_OPENAI_API_VERSION"] = None)
                => llm.api_version = <<"2023-06-01-preview">>
          /\ (llm # NoClient /\ environ["AZURE_OPENAI_API_VERSION"] # None)
                => llm.api_version = environ["AZURE_OPENAI_API_VERSION"])
    /\ [][/\ attempts' >= attempts
          /\ llm # NoClient => llm' = llm]_vars

C6_Witness ==
    /\ ConfigurationErrorState
    /\ environ["AZURE_OPENAI_DEPLOYMENT"] = <<>>
    /\ steps = <<"extract", "prompts">>

C6_WitnessDefaultVersion ==
    /\ llm # NoClient
    /\ environ["AZURE_OPENAI_API_VERSION"] = None
    /\ pc = "done"

Terminated == pc \in {"done", "failed"}

\* C9: the model call ends after at most 3 requests; a reply ends it (no
\* request after it, the text handed on); when the last request allowed
\* fails, the run fails with the error, no text and no file written; and
\* the run always ends.
C9_BoundedAttempts ==
    /\ [](/\ attempts <= 3
          /\ steps # <<>> /\ IsPrefix(<<"extract", "prompts", "llm">>, steps)
                => (generated \in MainReplies(module_name) /\ error = "none")
          /\ (pc = "failed" /\ error = "APIError")
                => (/\ attempts \in 1..3
                    /\ generated = NoText
                    /\ ensured = NoText
                    /\ Unwritten)
          /\ (llm # NoClient /\ attempts = 3 /\ ~IsPrefix(<<"extract", "prompts", "llm">>, steps))
                => (pc = "failed" /\ error = "APIError"))
    /\ [][pc # "invoke" => attempts' = attempts]_vars
    /\ <>Terminated

C9_Witness ==
    /\ pc = "failed"
    /\ error = "APIError"
    /\ attempts = 3

---------------------------------------------------------------------------
(* Properties of extract_top_level_functions *)

\* the parameters a definition declares, in the order of its signature
DeclaredParameters(node) ==
    node.args.posonlyargs
    \o node.args.args
    \o (IF node.args.vararg = None THEN <<>> ELSE <<node.args.vararg>>)
    \o node.args.kwonlyargs
    \o (IF node.args.kwarg = None THEN <<>> ELSE <<node.args.kwarg>>)

\* the `def` statements of the module body itself, in source order
ModuleLevelDefs(body) == SelectSeq(body, LAMBDA node : node.type = "FunctionDef")

\* C7, counting only plain `def` statements as functions: one signature for
\* each function defined at module level, in source order, with its name
\* and its declared parameter list; none for nested or class-scoped ones.
C7_SignaturesMatchDeclarations ==
    pc = "extracted" =>
        LET defs == ModuleLevelDefs(pyfile.body)
        IN  /\ Len(functions) = Len(defs)
            /\ \A i \in 1..Len(defs) :
                    /\ functions[i].name = defs[i].name
                    /\ functions[i].args = DeclaredParameters(defs[i])

---------------------------------------------------------------------------
(* Properties of build_prompts *)

HumanLines == splitlines(human_prompt)

ExpectedFuncLine(f) ==
    <<"-", SP>> \o f.name \o <<"(">> \o join(<<",", SP>>, f.args) \o <<")">>

\* C8: the human text has, for every signature and in source order, the
\* line `- name(p1, p2)` (here: as one block of lines), or the placeholder
\* and no such line when there is no signature; and the prompts are the
\* same whatever the module_code argument.
C8_PromptListsSignatures ==
    /\ pc \in {"built", "rebuilt"} =>
        IF functions # <<>>
        THEN /\ \E k \in 0..Len(HumanLines) :
                    /\ k + Len(functions) <= Len(HumanLines)
                    /\ \A i \in 1..Len(functions) :
                            HumanLines[k + i] = ExpectedFuncLine(functions[i])
             /\ \A i \in 1..Len(HumanLines) :
                    HumanLines[i] # <<"(nenhuma função top-level encontrada)">>
        ELSE /\ \E i \in 1..Len(HumanLines) :
                    HumanLines[i] = <<"(nenhuma função top-level encontrada)">>
             /\ \A i \in 1..Len(HumanLines) : ~startswith(HumanLines[i], <<"-", SP>>)
    /\ pc = "rebuilt" =>
            alt_prompts = [system |-> system_prompt, human |-> human_prompt]

C8_Witness ==
    /\ pc = "rebuilt"
    /\ Len(functions) >= 2
    /\ functions[1].args # <<>>
    /\ functions[2].args = <<>>

C8_WitnessPlaceholder ==
    /\ pc = "rebuilt"
    /\ functions = <<>>

===========================================================================
